---- MODULE Spec2Model ----
(***************************************************************************)
(* Model of plotting_utils.py: the class Plotting, a set of thin wrappers  *)
(* over matplotlib / pandas / seaborn.                                     *)
(*                                                                         *)
(* A method body is a straight-line list of statements.  Every statement   *)
(* that is a call into a library is recorded, in program order, in the     *)
(* trace of the call (call.log); the trace ends with the "return" or the   *)
(* "raise" that hands control back to the caller.  A library call that     *)
(* raises ends the method at once: the module has no try/except.           *)
(*                                                                         *)
(* The libraries are the environment.  What they do with the arguments     *)
(* they are given (LibExc, StyleUse, Rc) follows their documented          *)
(* behaviour; where that behaviour depends on the version installed, the   *)
(* model keeps every outcome.                                              *)
(*                                                                         *)
(* Encoding: rc values are kept as the text of the literal ("3.0", "18");  *)
(* lists are sequences; Python's None is the value None below; angles are  *)
(* integers in units of 2*pi/L.                                            *)
(***************************************************************************)
EXTENDS Integers, Sequences, FiniteSets, TLC

VARIABLES rcParams,     \* matplotlib's process-wide rc configuration
          styleLib,     \* the style sheets matplotlib can resolve by name
          constructed,  \* a Plotting object exists
          tables,       \* the caller's data tables, by identifier
          call          \* the last operation: name, table, trace, outcome

vars == <<rcParams, styleLib, constructed, tables, call>>

\* ------------------------------------------------------------------ bounds
\* Largest colour cycle a style sheet installs (seaborn's own has 6).
MaxColors == 6

\* ---------------------------------------------------------------- encoding
None == "<None>"

\* L = 2 * np.pi, in angle units chosen so that L / n is exact for n <= 10.
L == 2520

\* ------------------------------------------------------- rc configuration
RcKeys ==
  {"lines.linewidth", "axes.titlesize", "axes.labelsize", "axes.linewidth",
   "axes.edgecolor", "xtick.labelsize", "ytick.labelsize",
   "xtick.major.size", "ytick.major.size", "font.family", "font.sans-serif",
   "font.size", "mathtext.fontset", "axes.prop_cycle", "figure.figsize"}

\* The values __init__ asks for, by rc key.
StyleConstants ==
  [k \in {"lines.linewidth", "axes.titlesize", "axes.labelsize",
          "axes.linewidth", "axes.edgecolor", "xtick.labelsize",
          "ytick.labelsize", "xtick.major.size", "ytick.major.size",
          "font.family", "font.sans-serif", "font.size", "mathtext.fontset"}
     |-> CASE k = "lines.linewidth"  -> "3.0"
           [] k = "axes.titlesize"   -> "18"
           [] k = "axes.labelsize"   -> "18"
           [] k = "axes.linewidth"   -> "0.8"
           [] k = "axes.edgecolor"   -> "0.25"
           [] k = "xtick.labelsize"  -> "12"
           [] k = "ytick.labelsize"  -> "12"
           [] k = "xtick.major.size" -> "3.0"
           [] k = "ytick.major.size" -> "3.0"
           [] k = "font.family"      -> "sans-serif"
           [] k = "font.sans-serif"  -> <<"CMU Sans Serif">>
           [] k = "font.size"        -> "14"
           [] k = "mathtext.fontset" -> "cm"]

StyleKeys == DOMAIN StyleConstants

Palette == <<"4C72B0", "55A868", "C44E52", "8172B2", "CCB974", "64B5CD",
             "E377C2", "7F7F7F", "BCBD22", "17BECF">>

\* matplotlib's built-in defaults, and a configuration a host has customised.
DefaultRc ==
  [k \in RcKeys
     |-> CASE k = "lines.linewidth"  -> "1.5"
           [] k = "axes.titlesize"   -> "large"
           [] k = "axes.labelsize"   -> "medium"
           [] k = "axes.linewidth"   -> "0.8"
           [] k = "axes.edgecolor"   -> "black"
           [] k = "xtick.labelsize"  -> "medium"
           [] k = "ytick.labelsize"  -> "medium"
           [] k = "xtick.major.size" -> "3.5"
           [] k = "ytick.major.size" -> "3.5"
           [] k = "font.family"      -> "sans-serif"
           [] k = "font.sans-serif"  -> <<"DejaVu Sans">>
           [] k = "font.size"        -> "10.0"
           [] k = "mathtext.fontset" -> "dejavusans"
           [] k = "axes.prop_cycle"  -> Palette
           [] k = "figure.figsize"   -> <<"6.4", "4.8">>]

HostRc ==
  [DefaultRc EXCEPT !["font.family"] = "serif",
                    !["font.size"] = "8.0",
                    !["mathtext.fontset"] = "stix",
                    !["lines.linewidth"] = "3.0",
                    !["figure.figsize"] = <<"10.0", "10.0">>]

\* The style sheet 'seaborn' with a colour cycle of n colours: the keys the
\* sheet sets.  It sets neither font.size nor mathtext.fontset.
SeabornSheet(n) ==
  [k \in RcKeys \ {"font.size", "mathtext.fontset"}
     |-> CASE k = "lines.linewidth"  -> "1.75"
           [] k = "axes.titlesize"   -> "12"
           [] k = "axes.labelsize"   -> "11"
           [] k = "axes.linewidth"   -> "0"
           [] k = "axes.edgecolor"   -> "white"
           [] k = "xtick.labelsize"  -> "10"
           [] k = "ytick.labelsize"  -> "10"
           [] k = "xtick.major.size" -> "0"
           [] k = "ytick.major.size" -> "0"
           [] k = "font.family"      -> "sans-serif"
           [] k = "font.sans-serif"  -> <<"Arial", "Liberation Sans">>
           [] k = "axes.prop_cycle"  -> SubSeq(Palette, 1, n)
           [] k = "figure.figsize"   -> <<"8.0", "5.5">>]

\* plt.style.use(name): the sheet's keys overwrite rc, the others stay.
StyleUse(rc, lib, name) ==
  [k \in DOMAIN rc |-> IF k \in DOMAIN lib[name] THEN lib[name][k] ELSE rc[k]]

\* mpl.rc(group, **kw): sets rc[group.name] for every keyword.
RcName(group, name) == group \o "." \o name

Rc(rc, group, kw) ==
  [k \in DOMAIN rc |->
     IF \E n \in DOMAIN kw : RcName(group, n) = k
     THEN kw[CHOOSE n \in DOMAIN kw : RcName(group, n) = k]
     ELSE rc[k]]

\* ------------------------------------------------------------- data tables
Names == {"x", "h", "zz"}

Table(cols, dtype, rows) == [columns |-> cols, dtype |-> dtype, rows |-> rows]

TableIds == {"wide", "narrow", "empty"}

\* "wide" and "narrow" are well formed; "empty" has no column to plot.
InitTables ==
  [t \in TableIds
     |-> CASE t = "wide"   -> Table(<<"x", "y", "h">>, "int",
                                    <<<<1, 2, 0>>, <<3, 4, 1>>>>)
           [] t = "narrow" -> Table(<<"x", "y">>, "float",
                                    <<<<1, 2>>, <<3, 5>>>>)
           [] t = "empty"  -> Table(<<>>, "float", <<>>)]

Columns(df) == {df.columns[i] : i \in DOMAIN df.columns}

WellFormed(df) == Columns(df) # {}

\* ------------------------------------------------------------ library model
Stmt(callee, kw) == [callee |-> callee, kw |-> kw]

ColourNames == {"red"}
Colormaps == {"viridis", "magma"}
DiagKinds == {"kde", "hist"}

IsColumn(df, name) == name \in Columns(df)
NoneOrColumn(df, name) == name = None \/ IsColumn(df, name)

\* seaborn's x / y / hue resolution against data: a string that is not a
\* column cannot be interpreted; hue alone (no x, no y) is refused by the
\* categorical plots and version-dependent elsewhere; a table with nothing
\* to plot may or may not be refused.
SnsXYHue(df, x, y, hue) ==
  IF ~NoneOrColumn(df, x) \/ ~NoneOrColumn(df, y) \/ ~NoneOrColumn(df, hue)
  THEN {"ValueError"}
  ELSE IF ~WellFormed(df) \/ (x = None /\ y = None /\ hue # None)
       THEN {"none", "ValueError"}
       ELSE {"none"}

\* The exceptions a library call can end in ("none": it returns normally).
LibExc(s, rc, lib) ==
  CASE s.callee = "plt.style.use" ->
         IF s.kw.name \in DOMAIN lib THEN {"none"} ELSE {"OSError"}
    [] s.callee = "mpl.rc" ->
         IF \A n \in DOMAIN s.kw.kw : RcName(s.kw.group, n) \in DOMAIN rc
         THEN {"none"} ELSE {"KeyError"}
    [] s.callee = "DataFrame.hist" ->
         IF WellFormed(s.kw.self) THEN {"none"} ELSE {"ValueError"}
    [] s.callee = "plt.get_cmap" ->
         IF s.kw.name \in Colormaps THEN {"none"} ELSE {"ValueError"}
    [] s.callee = "DataFrame.plot" ->
         IF ~IsColumn(s.kw.self, s.kw.x) \/ ~IsColumn(s.kw.self, s.kw.y)
         THEN {"KeyError"}
         ELSE IF NoneOrColumn(s.kw.self, s.kw.c) THEN {"none"}
         \* c that is no column is taken as a colour: a valid colour is
         \* drawn (older matplotlib then refuses the colorbar)
         ELSE IF s.kw.c \in ColourNames THEN {"none", "TypeError"}
         ELSE {"ValueError"}
    [] s.callee = "pd.plotting.scatter_matrix" ->
         IF WellFormed(s.kw.frame) THEN {"none"} ELSE {"ValueError"}
    [] s.callee = "sns.pairplot" ->
         IF ~NoneOrColumn(s.kw.data, s.kw.hue) THEN {"KeyError"}
         ELSE IF ~WellFormed(s.kw.data) THEN {"none", "ValueError"}
         ELSE {"none"}
    [] s.callee \in {"sns.lineplot", "sns.boxenplot", "sns.barplot"} ->
         SnsXYHue(s.kw.data, s.kw.x, s.kw.y, s.kw.hue)
    [] s.callee = "sns.heatmap" ->
         IF ~WellFormed(s.kw.data) THEN {"ValueError"}
         \* format code 'd' cannot annotate a float
         ELSE IF s.kw.fmt = "d" /\ s.kw.data.dtype = "float"
              THEN {"ValueError"}
              ELSE {"none"}
    [] OTHER -> {"none"}

\* What a library call that returns leaves in rc.
LibRc(s, rc, lib) ==
  CASE s.callee = "plt.style.use" -> StyleUse(rc, lib, s.kw.name)
    [] s.callee = "mpl.rc"        -> Rc(rc, s.kw.group, s.kw.kw)
    [] OTHER                      -> rc

\* ------------------------------------------------------- running a method
\* The frame of a call: rc and the style library (process-wide), the table
\* object the caller passed (df), the trace so far, the pending exception.
Frame(self, dataframe) ==
  [rc |-> self.rc, lib |-> self.lib, df |-> dataframe, log |-> <<>>,
   exc |-> "none", origin |-> "none"]

\* One statement: the call is made (and logged); it returns or it raises.
Step(s, st) ==
  {[st EXCEPT !.log = Append(@, s),
              !.rc = IF e = "none" THEN LibRc(s, st.rc, st.lib) ELSE @,
              !.exc = e,
              !.origin = IF e = "none" THEN "none" ELSE "library"]
      : e \in LibExc(s, st.rc, st.lib)}

\* Statements in program order; nothing runs after a raise.
RECURSIVE Run(_, _)
Run(stmts, st) ==
  IF stmts = <<>> \/ st.exc # "none" THEN {st}
  ELSE UNION {Run(Tail(stmts), s2) : s2 \in Step(Head(stmts), st)}

\* An exception raised by the module's own code (no library call made).
Raise(st, e) == [st EXCEPT !.exc = e, !.origin = "module"]

\* Leaving the method: the implicit "return None", or the exception
\* propagating to the caller unchanged.
Leave(st) ==
  IF st.exc = "none"
  THEN [st EXCEPT !.log = Append(@, Stmt("return", [value |-> None]))]
  ELSE [st EXCEPT !.log = Append(@, Stmt("raise", [exc |-> st.exc]))]

Body(stmts, st) == {Leave(r) : r \in Run(stmts, st)}

\* ------------------------------------------------------------------ numpy
\* np.linspace(start, stop, num, endpoint): num samples, step = delta / div
\* with div = num - 1 (endpoint) or num (no endpoint); with the endpoint the
\* last sample is stop itself.
np_linspace(start, stop, num, endpoint) ==
  LET div   == IF endpoint THEN num - 1 ELSE num
      delta == stop - start
      step  == IF div > 0 THEN delta \div div ELSE delta
  IN [i \in 1..num |->
        IF endpoint /\ num > 1 /\ i = num THEN stop
        ELSE (i - 1) * step + start]

\* --------------------------------------------------------------- Plotting
Show == Stmt("plt.show", [block |-> None])

\* Plotting.__init__
init_StyleLast(self) ==
  LET font_size  == "14"
      label_size == "18"
      tick_size  == "12"
      font_style == ("family" :> "sans-serif")
                    @@ ("sans-serif" :> <<"CMU Sans Serif">>)
                    @@ ("size" :> font_size)
  IN Body(<<Stmt("mpl.rc", [group |-> "lines", kw |-> [linewidth |-> "3.0"]]),
            Stmt("mpl.rc", [group |-> "axes",
                            kw |-> [titlesize |-> label_size,
                                    labelsize |-> label_size,
                                    linewidth |-> "0.8",
                                    edgecolor |-> "0.25"]]),
            Stmt("mpl.rc", [group |-> "xtick", kw |-> [labelsize |-> tick_size]]),
            Stmt("mpl.rc", [group |-> "ytick", kw |-> [labelsize |-> tick_size]]),
            Stmt("mpl.rc", [group |-> "xtick.major", kw |-> [size |-> "3.0"]]),
            Stmt("mpl.rc", [group |-> "ytick.major", kw |-> [size |-> "3.0"]]),
            Stmt("mpl.rc", [group |-> "font", kw |-> font_style]),
            Stmt("mpl.rc", [group |-> "mathtext", kw |-> [fontset |-> "cm"]]),
            Stmt("plt.style.use", [name |-> "seaborn"])>>,
          Frame(self, None))

__init__(self) ==
  LET font_size  == "14"
      label_size == "18"
      tick_size  == "12"
      font_style == ("family" :> "sans-serif")
                    @@ ("sans-serif" :> <<"CMU Sans Serif">>)
                    @@ ("size" :> font_size)
  IN Body(<<Stmt("plt.style.use", [name |-> "seaborn"]),
            Stmt("mpl.rc", [group |-> "lines", kw |-> [linewidth |-> "3.0"]]),
            Stmt("mpl.rc", [group |-> "axes",
                            kw |-> [titlesize |-> label_size,
                                    labelsize |-> label_size,
                                    linewidth |-> "0.8",
                                    edgecolor |-> "0.25"]]),
            Stmt("mpl.rc", [group |-> "xtick", kw |-> [labelsize |-> tick_size]]),
            Stmt("mpl.rc", [group |-> "ytick", kw |-> [labelsize |-> tick_size]]),
            Stmt("mpl.rc", [group |-> "xtick.major", kw |-> [size |-> "3.0"]]),
            Stmt("mpl.rc", [group |-> "ytick.major", kw |-> [size |-> "3.0"]]),
            Stmt("mpl.rc", [group |-> "font", kw |-> font_style]),
            Stmt("mpl.rc", [group |-> "mathtext", kw |-> [fontset |-> "cm"]])>>,
          Frame(self, None))

SinePlots(shift) ==
  [i \in DOMAIN shift |->
     Stmt("plt.plot", [x |-> "x", y |-> [sin_x_plus |-> shift[i]], fmt |-> "-"])]

SineLabels(x) ==
  <<Stmt("plt.xlim", [lim |-> <<x[1], x[Len(x)]>>]),
    Stmt("plt.xlabel", [text |-> "$x$"]),
    Stmt("plt.ylabel", [text |-> "$\\sin(x)$"]),
    Stmt("plt.title", [text |-> "Shifted sine plots"]),
    Show>>

sinusoidal_WithEndpoint(self) ==
  LET x         == np_linspace(0, L, 50, TRUE)
      nb_colors == Len(self.rc["axes.prop_cycle"])
      shift     == np_linspace(0, L, nb_colors, TRUE)
  IN Body(SinePlots(shift) \o SineLabels(x), Frame(self, None))

plot_colored_sinusoidal_lines(self) ==
  LET x         == np_linspace(0, L, 50, TRUE)
      nb_colors == Len(self.rc["axes.prop_cycle"])
      shift     == np_linspace(0, L, nb_colors, FALSE)
  IN Body(SinePlots(shift) \o SineLabels(x), Frame(self, None))

histogram_Validating(self, dataframe, fig_size) ==
  IF ~WellFormed(dataframe)
  THEN {Leave(Raise(Frame(self, dataframe), "ValueError"))}
  ELSE Body(<<Stmt("DataFrame.hist",
                   [self |-> dataframe, bins |-> 50, figsize |-> fig_size]),
              Show>>,
            Frame(self, dataframe))

pandas_histogram(self, dataframe, fig_size) ==
  Body(<<Stmt("DataFrame.hist",
              [self |-> dataframe, bins |-> 50, figsize |-> fig_size]),
         Show>>,
       Frame(self, dataframe))

ScatterPlot(dataframe, x_series, y_series, size, size_label, color) ==
  Stmt("DataFrame.plot",
       [self |-> dataframe, kind |-> "scatter", x |-> x_series,
        y |-> y_series, alpha |-> "0.4", s |-> size, label |-> size_label,
        c |-> color, cmap |-> "viridis", colorbar |-> TRUE])

GetCmap == Stmt("plt.get_cmap", [name |-> "viridis"])

\* try: ... finally: plt.show()
scatter_ShowAlways(self, dataframe, x_series, y_series, size, size_label, color) ==
  {Leave(r) :
     r \in UNION {
       IF p.exc = "none" THEN Run(<<Show>>, p)
       ELSE {[p EXCEPT !.log = Append(@, Show)]}
       : p \in Run(<<GetCmap,
                     ScatterPlot(dataframe, x_series, y_series, size,
                                 size_label, color)>>,
                   Frame(self, dataframe))}}

\* The colormap argument is evaluated before the plot call it is passed to.
pandas_scatter_plot(self, dataframe, x_series, y_series, size, size_label, color) ==
  Body(<<GetCmap,
         ScatterPlot(dataframe, x_series, y_series, size, size_label, color),
         Show>>,
       Frame(self, dataframe))

\* dataframe.dropna(inplace=True) ahead of the plot
scatter_matrix_DropRows(self, dataframe, fig_size) ==
  LET cleaned == [dataframe EXCEPT !.rows = <<>>]
  IN Body(<<Stmt("pd.plotting.scatter_matrix",
                 [frame |-> cleaned, figsize |-> fig_size, diagonal |-> "kde"]),
            Show>>,
          Frame(self, cleaned))

pandas_scatter_matrix(self, dataframe, fig_size) ==
  Body(<<Stmt("pd.plotting.scatter_matrix",
              [frame |-> dataframe, figsize |-> fig_size, diagonal |-> "kde"]),
         Show>>,
       Frame(self, dataframe))

sns_scatter_matrix(self, dataframe, hue_str, diag_plt) ==
  Body(<<Stmt("sns.pairplot",
              [data |-> dataframe, hue |-> hue_str, palette |-> "viridis",
               kind |-> "scatter", diag_kind |-> diag_plt, height |-> "2.5"]),
         Show>>,
       Frame(self, dataframe))

\* try: ... except Exception: pass
lineplot_Swallow(self, dataframe, x_name, y_name, hue_str) ==
  {Leave([r EXCEPT !.exc = "none", !.origin = "none"]) :
     r \in Run(<<Stmt("sns.lineplot",
                      [data |-> dataframe, x |-> x_name, y |-> y_name,
                       hue |-> hue_str]),
                 Show>>,
               Frame(self, dataframe))}

sns_lineplot(self, dataframe, x_name, y_name, hue_str) ==
  Body(<<Stmt("sns.lineplot",
              [data |-> dataframe, x |-> x_name, y |-> y_name,
               hue |-> hue_str]),
         Show>>,
       Frame(self, dataframe))

boxenplot_ShowFirst(self, dataframe, x_name, y_name, hue_str) ==
  Body(<<Show,
         Stmt("sns.boxenplot",
              [data |-> dataframe, x |-> x_name, y |-> y_name,
               hue |-> hue_str, palette |-> "deep"])>>,
       Frame(self, dataframe))

sns_boxenplot(self, dataframe, x_name, y_name, hue_str) ==
  Body(<<Stmt("sns.boxenplot",
              [data |-> dataframe, x |-> x_name, y |-> y_name,
               hue |-> hue_str, palette |-> "deep"]),
         Show>>,
       Frame(self, dataframe))

barplot_NoShow(self, dataframe, x_name, y_name, hue_str) ==
  Body(<<Stmt("sns.barplot",
              [data |-> dataframe, x |-> x_name, y |-> y_name,
               hue |-> hue_str])>>,
       Frame(self, dataframe))

sns_barplot(self, dataframe, x_name, y_name, hue_str) ==
  Body(<<Stmt("sns.barplot",
              [data |-> dataframe, x |-> x_name, y |-> y_name,
               hue |-> hue_str]),
         Show>>,
       Frame(self, dataframe))

Heatmap(data2d, fmt) ==
  Stmt("sns.heatmap",
       [data |-> data2d, annot |-> TRUE, linewidths |-> "0.5", fmt |-> fmt])

heatmap_FmtSwapped(self, data2d, data_type) ==
  LET data_string == [int |-> "0.1f", float |-> "d"]
  IN IF data_type \notin DOMAIN data_string
     THEN {Leave(Raise(Frame(self, data2d), "KeyError"))}
     ELSE Body(<<Heatmap(data2d, data_string[data_type]), Show>>,
               Frame(self, data2d))

\* sns.set() ahead of the heatmap: the seaborn style is applied again
heatmap_Restyle(self, data2d, data_type) ==
  LET data_string == [int |-> "d", float |-> "0.1f"]
  IN IF data_type \notin DOMAIN data_string
     THEN {Leave(Raise(Frame(self, data2d), "KeyError"))}
     ELSE Body(<<Stmt("plt.style.use", [name |-> "seaborn"]),
                 Heatmap(data2d, data_string[data_type]), Show>>,
               Frame(self, data2d))

\* The argument data_string[data_type] is evaluated by the module before the
\* heatmap call: a data_type that is no key of the dict raises KeyError there.
sns_heatmap(self, data2d, data_type) ==
  LET data_string == [int |-> "d", float |-> "0.1f"]
  IN IF data_type \notin DOMAIN data_string
     THEN {Leave(Raise(Frame(self, data2d), "KeyError"))}
     ELSE Body(<<Heatmap(data2d, data_string[data_type]), Show>>,
               Frame(self, data2d))

\* ------------------------------------------------------------------ inputs
FigSizes == {<<20, 20>>, <<12, 12>>}
Selectors == {"h", "zz", None}
ColourArgs == {"h", "zz", "red", None}
Sizes == {"population/100"}
SizeLabels == {"population"}
DataTypes == {"int", "float", "str"}

\* ----------------------------------------------------------------- actions
Self == [rc |-> rcParams, lib |-> styleLib]

NoCall == [op |-> "none", table |-> None, args |-> <<>>, log |-> <<>>,
           exc |-> "none", origin |-> "none"]

\* The state a finished call leaves: r is the frame the method left.
Commit(op, t, args, r) ==
  /\ rcParams' = r.rc
  /\ tables' = IF t = None THEN tables ELSE [tables EXCEPT ![t] = r.df]
  /\ call' = [op |-> op, table |-> t, args |-> args, log |-> r.log,
              exc |-> r.exc, origin |-> r.origin]
  /\ constructed' = (constructed \/ (op = "__init__" /\ r.exc = "none"))
  /\ UNCHANGED styleLib

Init ==
  /\ rcParams \in {DefaultRc, HostRc}
  /\ \E n \in 1..MaxColors : styleLib = [seaborn |-> SeabornSheet(n)]
  /\ constructed = FALSE
  /\ tables = InitTables
  /\ call = NoCall

Construct ==
  \E r \in __init__(Self) : Commit("__init__", None, <<>>, r)

CallSinusoidal ==
  /\ constructed
  /\ \E r \in plot_colored_sinusoidal_lines(Self) :
       Commit("plot_colored_sinusoidal_lines", None, <<>>, r)

CallHistogram ==
  /\ constructed
  /\ \E t \in TableIds, fig_size \in FigSizes :
       \E r \in pandas_histogram(Self, tables[t], fig_size) :
         Commit("pandas_histogram", t, [fig_size |-> fig_size], r)

CallScatterPlot ==
  /\ constructed
  /\ \E t \in TableIds, x \in Names, y \in Names, size \in Sizes,
        size_label \in SizeLabels, color \in ColourArgs :
       \E r \in pandas_scatter_plot(Self, tables[t], x, y, size, size_label, color) :
         Commit("pandas_scatter_plot", t,
                [x_series |-> x, y_series |-> y, size |-> size,
                 size_label |-> size_label, color |-> color], r)

CallScatterMatrix ==
  /\ constructed
  /\ \E t \in TableIds, fig_size \in FigSizes :
       \E r \in pandas_scatter_matrix(Self, tables[t], fig_size) :
         Commit("pandas_scatter_matrix", t, [fig_size |-> fig_size], r)

CallSnsScatterMatrix ==
  /\ constructed
  /\ \E t \in TableIds, hue \in Selectors, diag \in DiagKinds :
       \E r \in sns_scatter_matrix(Self, tables[t], hue, diag) :
         Commit("sns_scatter_matrix", t,
                [hue_str |-> hue, diag_plt |-> diag], r)

CallLineplot ==
  /\ constructed
  /\ \E t \in TableIds, x \in Selectors, y \in Selectors, hue \in Selectors :
       \E r \in sns_lineplot(Self, tables[t], x, y, hue) :
         Commit("sns_lineplot", t,
                [x_name |-> x, y_name |-> y, hue_str |-> hue], r)

CallBoxenplot ==
  /\ constructed
  /\ \E t \in TableIds, x \in Selectors, y \in Selectors, hue \in Selectors :
       \E r \in sns_boxenplot(Self, tables[t], x, y, hue) :
         Commit("sns_boxenplot", t,
                [x_name |-> x, y_name |-> y, hue_str |-> hue], r)

CallBarplot ==
  /\ constructed
  /\ \E t \in TableIds, x \in Selectors, y \in Selectors, hue \in Selectors :
       \E r \in sns_barplot(Self, tables[t], x, y, hue) :
         Commit("sns_barplot", t,
                [x_name |-> x, y_name |-> y, hue_str |-> hue], r)

CallHeatmap ==
  /\ constructed
  /\ \E t \in TableIds, data_type \in DataTypes :
       \E r \in sns_heatmap(Self, tables[t], data_type) :
         Commit("sns_heatmap", t, [data_type |-> data_type], r)

Next ==
  \/ Construct
  \/ CallSinusoidal
  \/ CallHistogram
  \/ CallScatterPlot
  \/ CallScatterMatrix
  \/ CallSnsScatterMatrix
  \/ CallLineplot
  \/ CallBoxenplot
  \/ CallBarplot
  \/ CallHeatmap

Spec == Init /\ [][Next]_vars

\* ------------------------------------------------- reading a call's trace
ChartOps ==
  {"pandas_histogram", "pandas_scatter_plot", "pandas_scatter_matrix",
   "sns_scatter_matrix", "sns_lineplot", "sns_boxenplot", "sns_barplot",
   "sns_heatmap"}

PlotCallees ==
  {"DataFrame.hist", "DataFrame.plot", "pd.plotting.scatter_matrix",
   "sns.pairplot", "sns.lineplot", "sns.boxenplot", "sns.barplot",
   "sns.heatmap"}

Exits == {"return", "raise"}

At(S) == {i \in DOMAIN call.log : call.log[i].callee \in S}
Count(S) == Cardinality(At(S))
LibCalls == {i \in DOMAIN call.log : call.log[i].callee \notin Exits}
Last == call.log[Len(call.log)]

Returned == call.exc = "none"
Failed == call.exc # "none"

Arg(name) == call.args[name]
CallCols == Columns(tables[call.table])
Missing(name) == Arg(name) # None /\ Arg(name) \notin CallCols
Present(name) == Arg(name) \in CallCols
Optional(name) == Arg(name) = None \/ Present(name)

XYHueOps == {"sns_lineplot", "sns_boxenplot", "sns_barplot"}

\* A well-formed data table and parameters the library accepts for it.
ValidCall ==
  /\ call.op \in ChartOps
  /\ WellFormed(tables[call.table])
  /\ call.op = "pandas_scatter_plot" =>
       Present("x_series") /\ Present("y_series") /\ Optional("color")
  /\ call.op = "sns_scatter_matrix" => Optional("hue_str")
  /\ call.op \in XYHueOps =>
       /\ Optional("x_name") /\ Optional("y_name") /\ Optional("hue_str")
       /\ Arg("hue_str") # None => (Arg("x_name") # None \/ Arg("y_name") # None)
  /\ call.op = "sns_heatmap" =>
       /\ Arg("data_type") \in {"int", "float"}
       /\ Arg("data_type") = "int" => tables[call.table].dtype = "int"

\* ------------------------------------------------------------------ claims

\* C1 (as stated): a chart function called with a well-formed table and
\* valid parameters returns, having made exactly one call into the plotting
\* libraries and exactly one plt.show.
C1_OneLibraryCall ==
  ValidCall =>
    /\ Returned
    /\ Count({"plt.show"}) = 1
    /\ Cardinality(LibCalls \ At({"plt.show"})) = 1

\* C1 (amended): a chart function called with a well-formed table and valid
\* parameters returns, having made exactly one plotting call and exactly one
\* plt.show; the only other library call is the one colormap lookup
\* plt.get_cmap that pandas_scatter_plot makes.
C1_OnePlotOneShow ==
  ValidCall =>
    /\ Returned
    /\ Count(PlotCallees) = 1
    /\ Count({"plt.show"}) = 1
    /\ Count({"plt.get_cmap"}) = IF call.op = "pandas_scatter_plot" THEN 1 ELSE 0
    /\ LibCalls = At(PlotCallees \cup {"plt.show", "plt.get_cmap"})

C1_Witness ==
  /\ ValidCall
  /\ call.op \in {"pandas_scatter_plot", "sns_barplot"}
  /\ Returned
  /\ Count({"plt.show"}) = 1

\* "The call names a column that the table does not have."
NamesMissingXYHue ==
  \/ call.op = "pandas_scatter_plot" /\ (Missing("x_series") \/ Missing("y_series"))
  \/ call.op = "sns_scatter_matrix" /\ Missing("hue_str")
  \/ call.op \in XYHueOps /\ (Missing("x_name") \/ Missing("y_name") \/ Missing("hue_str"))

NamesMissingColumn ==
  \/ NamesMissingXYHue
  \/ call.op = "pandas_scatter_plot" /\ Missing("color")

PropagatedLibraryError ==
  /\ Failed
  /\ call.origin = "library"
  /\ Last = Stmt("raise", [exc |-> call.exc])
  /\ Len(call.log) >= 2
  /\ call.exc \in LibExc(call.log[Len(call.log) - 1], rcParams, styleLib)

\* C2 (as stated): a call that names a column the table does not have ends
\* in the library's error, propagated; it never returns normally.
C2_MissingColumnRaises ==
  NamesMissingColumn => PropagatedLibraryError

\* C2 (amended): a call that names, for an x, y or hue selector, a column
\* the table does not have, or gives pandas_scatter_plot a color that is
\* neither a column nor a colour the library knows, ends in the library's
\* error, propagated; it never returns normally.
C2_MissingSelectorRaises ==
  (\/ NamesMissingXYHue
   \/ call.op = "pandas_scatter_plot" /\ Missing("color")
                                      /\ Arg("color") \notin ColourNames)
    => PropagatedLibraryError

C2_Witness ==
  /\ call.op = "sns_lineplot"
  /\ Missing("x_name")
  /\ Optional("y_name") /\ Optional("hue_str")
  /\ WellFormed(tables[call.table])
  /\ Failed

\* C3 (as stated): every failure of a chart function is an error of the
\* library call; the module raises nothing of its own.
C3_OnlyLibraryErrors ==
  (call.op \in ChartOps /\ Failed) => call.origin = "library"

\* C3 (amended): every failure of a chart function is the error of its
\* library call, propagated unchanged, except sns_heatmap with a data_type
\* other than 'int' and 'float': there the module's own dict lookup raises
\* KeyError and no library call is made.
C3_LibraryErrorsButHeatmapKey ==
  (call.op \in ChartOps /\ Failed) =>
    \/ PropagatedLibraryError
    \/ /\ call.op = "sns_heatmap"
       /\ Arg("data_type") \notin {"int", "float"}
       /\ call.origin = "module"
       /\ call.exc = "KeyError"
       /\ LibCalls = {}

C3_Witness ==
  /\ call.op = "pandas_histogram"
  /\ ~WellFormed(tables[call.table])
  /\ Failed
  /\ call.origin = "library"

StyleHolds(rc) == \A k \in StyleKeys : rc[k] = StyleConstants[k]

\* C4: a construction returns and leaves every style key at its constant;
\* the style sheet is applied first and every rc override after it.
C4_ConstructSetsStyle ==
  call.op = "__init__" =>
    /\ Returned
    /\ StyleHolds(rcParams)
    /\ call.log[1] = Stmt("plt.style.use", [name |-> "seaborn"])
    /\ \A i \in LibCalls : i > 1 => call.log[i].callee = "mpl.rc"

\* the sheet asks for another value of a key the constructor sets
C4_Witness ==
  /\ call.op = "__init__"
  /\ Returned
  /\ styleLib["seaborn"]["lines.linewidth"] # StyleConstants["lines.linewidth"]
  /\ rcParams["lines.linewidth"] = "3.0"

\* C5: once a Plotting object exists, no operation of the module changes a
\* style key: after every operation each still holds its constant.
C5_StyleNeverMutated ==
  [][constructed =>
       \A k \in StyleKeys : rcParams'[k] = rcParams[k]
                            /\ rcParams'[k] = StyleConstants[k]]_vars

C5_Witness ==
  /\ constructed
  /\ call.op = "sns_heatmap"
  /\ Returned
  /\ StyleHolds(rcParams)

\* C6: no operation changes a data table of the caller, whether it returns
\* or raises.
C6_TablesUnchanged ==
  [][tables' = tables]_vars

C6_Witness ==
  /\ call.op = "pandas_scatter_matrix"
  /\ call.table = "wide"
  /\ Returned
  /\ tables = InitTables

\* C7: in a chart function that returns, the plotting call comes first,
\* plt.show after it, and the return, of None, directly after plt.show.
C7_PlotThenShowThenReturn ==
  (call.op \in ChartOps /\ Returned) =>
    LET n == Len(call.log) IN
    /\ n >= 3
    /\ call.log[n] = Stmt("return", [value |-> None])
    /\ call.log[n - 1] = Show
    /\ call.log[n - 2].callee \in PlotCallees
    /\ At(PlotCallees) = {n - 2}
    /\ At({"plt.show"}) = {n - 1}

C7_Witness ==
  /\ call.op = "sns_boxenplot"
  /\ Returned
  /\ Count({"plt.show"}) = 1

\* C8: sns_heatmap passes fmt 'd' for 'int' and '0.1f' for 'float', with
\* annot=True and linewidths=0.5; any other data_type fails with KeyError
\* before the heatmap call and before any render.
C8_HeatmapFormat ==
  call.op = "sns_heatmap" =>
    /\ Arg("data_type") \in {"int", "float"} =>
         call.log[1] = Stmt("sns.heatmap",
                            [data |-> tables[call.table], annot |-> TRUE,
                             linewidths |-> "0.5",
                             fmt |-> IF Arg("data_type") = "int"
                                     THEN "d" ELSE "0.1f"])
    /\ Arg("data_type") \notin {"int", "float"} =>
         /\ call.exc = "KeyError"
         /\ call.log = <<Stmt("raise", [exc |-> "KeyError"])>>

C8_Witness ==
  /\ call.op = "sns_heatmap"
  /\ Arg("data_type") = "float"
  /\ Returned

\* C9: a chart function whose plotting call raises makes no plt.show; a
\* plt.show is made only after a plotting call that returned.
C9_NoShowAfterFailure ==
  call.op \in ChartOps =>
    /\ Failed => Count({"plt.show"}) = 0
    /\ \A j \in At({"plt.show"}) :
         \E i \in At(PlotCallees) : i < j

C9_Witness ==
  /\ call.op = "pandas_scatter_plot"
  /\ Failed
  /\ Count({"DataFrame.plot"}) = 1

\* C10: with n colours in the cycle, plot_colored_sinusoidal_lines makes n
\* plot calls, the k-th (from 0) of sin(x + k*L/n): n distinct shifts in
\* [0, L); all of them come before the one plt.show; the cycle is only read.
C10_OnePlotPerColour ==
  call.op = "plot_colored_sinusoidal_lines" =>
    LET n == Len(rcParams["axes.prop_cycle"])
        shiftOf(i) == call.log[i].kw.y.sin_x_plus
    IN /\ Returned
       /\ At({"plt.plot"}) = 1..n
       /\ \A i \in 1..n : n * shiftOf(i) = (i - 1) * L
       /\ \A i \in 1..n : 0 <= shiftOf(i) /\ shiftOf(i) < L
       /\ \A i, j \in 1..n : i # j => shiftOf(i) # shiftOf(j)
       /\ Count({"plt.show"}) = 1
       /\ \A j \in At({"plt.show"}) : j > n
       /\ rcParams["axes.prop_cycle"] = styleLib["seaborn"]["axes.prop_cycle"]

C10_Witness ==
  /\ call.op = "plot_colored_sinusoidal_lines"
  /\ Count({"plt.plot"}) >= 3
  /\ Returned

====
